---- MODULE Spec2Model ----
(***************************************************************************)
(* Model of the synthesizer adapters of SynRD                              *)
(* (src/SynRD/synthesizers/synthesizer.py).                                *)
(*                                                                         *)
(* A dataset (pandas DataFrame) is a record                                *)
(*   [cols : sequence of distinct column names,                            *)
(*    n    : number of rows,                                               *)
(*    vals : function from column name to its sequence of n integers].     *)
(* Values are integers without nulls, so count() of a column is n.         *)
(*                                                                         *)
(* Epsilon is counted in thousandths (1000 = 1.0, 10 = the floor 10E-3),   *)
(* thresh and preprocess_factor in hundredths (5 = 0.05); an amount of     *)
(* epsilon spent by a preprocessing or training step is counted in         *)
(* hundred-thousandths (the unit of preprocess_factor * epsilon).          *)
(***************************************************************************)
EXTENDS Integers, Sequences, FiniteSets, TLC

\* ------------------------------------------------------------------ bounds

MaxRows == 2
MaxVal == 2
MinVal == 0 - 1

ColNames == {"a", "col0"}
Values == MinVal..MaxVal

\* ---------------------------------------------------------------- datasets

None == "None"

ColSeqs == {<<>>} \cup {<<c>> : c \in ColNames}
             \cup {<<c, d>> : <<c, d>> \in {p \in ColNames \X ColNames : p[1] # p[2]}}

Range(s) == {s[i] : i \in 1..Len(s)}

SeqsOfLen(S, k) == [1..k -> S]

\* every DataFrame with the given column sequence and k rows
FramesOf(cs, k) ==
    {[cols |-> cs, n |-> k, vals |-> v] : v \in [Range(cs) -> SeqsOfLen(Values, k)]}

\* every DataFrame over the column sequences css with at most rows rows; a
\* DataFrame without columns has no rows
Datasets(css, rows) ==
    UNION {FramesOf(cs, k) : <<cs, k>> \in {p \in css \X (0..rows) :
                                                p[1] = <<>> => p[2] = 0}}

SetMin(S) == CHOOSE x \in S : \A y \in S : x <= y

\* min(df[c]) for a column with at least one value
ColMin(df, c) == SetMin(Range(df.vals[c]))

Restrict(f, S) == [x \in S |-> f[x]]

\* ---------------------------------------------------------- range transform

\* df[c] = df[c] - m
ShiftColumn(df, c, m) == [df EXCEPT !.vals[c] = [k \in 1..df.n |-> df.vals[c][k] - m]]

\* transform[c] = m
Record(transform, c, m) ==
    [x \in DOMAIN transform \cup {c} |-> IF x = c THEN m ELSE transform[x]]

ForwardResult(raised, df, transform) ==
    [raised |-> raised, df |-> df, transform |-> transform]

\* Synthesizer.slide_range_forward: the loop over df.columns, in order.  The
\* frame is changed in place; a column without values makes min() raise.
RECURSIVE ForwardLoop(_, _, _)
\* the loop body with >= in place of >: a column whose minimum is 0 is recorded
ForwardStepGe(df, transform, i, c) ==
    IF df.n = 0 THEN ForwardResult(TRUE, df, transform)
    ELSE IF ColMin(df, c) >= 0
    THEN ForwardLoop(ShiftColumn(df, c, ColMin(df, c)), Record(transform, c, ColMin(df, c)),
                     i + 1)
    ELSE ForwardLoop(df, transform, i + 1)

ForwardStep(df, transform, i, c) ==
    IF df.n = 0 THEN ForwardResult(TRUE, df, transform)
    ELSE IF ColMin(df, c) > 0
    THEN ForwardLoop(ShiftColumn(df, c, ColMin(df, c)), Record(transform, c, ColMin(df, c)),
                     i + 1)
    ELSE ForwardLoop(df, transform, i + 1)

ForwardLoop(df, transform, i) ==
    IF i > Len(df.cols) THEN ForwardResult(FALSE, df, transform)
    ELSE ForwardStep(df, transform, i, df.cols[i])

slide_range_forward(df) == ForwardLoop(df, <<>>, 1)

\* Synthesizer.slide_range_backward with every mapped amount subtracted again
slide_range_backward_sub(df, transform) ==
    [df EXCEPT !.vals = [c \in Range(df.cols) |->
        IF c \in DOMAIN transform
        THEN [k \in 1..df.n |-> df.vals[c][k] - transform[c]]
        ELSE df.vals[c]]]

\* Synthesizer.slide_range_backward
slide_range_backward(df, transform) ==
    [df EXCEPT !.vals = [c \in Range(df.cols) |->
        IF c \in DOMAIN transform
        THEN [k \in 1..df.n |-> df.vals[c][k] + transform[c]]
        ELSE df.vals[c]]]

\* ------------------------------------------------------------ option values

\* A Python value handed to a constructor: its type (kind), a number v (a bool
\* is 0 or 1, a float is counted in the unit of the option it is given for) and
\* a string s.
Val(kind, v, s) == [kind |-> kind, v |-> v, s |-> s]
NoneVal == Val("NoneType", 0, "")
BoolVal(b) == Val("bool", IF b THEN 1 ELSE 0, "")
IntVal(i) == Val("int", i, "")
FloatVal(u) == Val("float", u, "")
StrVal(s) == Val("str", 0, s)

\* isinstance(x, t); bool is a subclass of int
IsInstance(x, t) ==
    CASE t = "int" -> x.kind \in {"int", "bool"}
      [] t = "float" -> x.kind = "float"
      [] t = "bool" -> x.kind = "bool"
      [] t = "str" -> x.kind = "str"

\* float(x) of an int or bool, in an option's unit (units per 1.0)
ToFloat(x, unit) == FloatVal(x.v * unit)

\* epsilon is counted in thousandths
EpsUnit == 10 * 10 * 10
Variants == {"MST", "PATECTGAN", "PrivBayes", "PacSynth", "AIMT", "AIM", "GEM"}

Param(name, default, type, unit) ==
    [name |-> name, default |-> default, type |-> type, unit |-> unit]

\* Synthesizer.__init__: param_defaults
BaseParamDefaults ==
    <<Param("slide_range", BoolVal(FALSE), "bool", 1),
      Param("thresh", FloatVal(5), "float", 100)>>

\* the param_defaults (or the single typed option) of each subclass
ParamDefaults(variant) ==
    CASE variant = "MST" ->
           <<Param("preprocess_factor", FloatVal(5), "float", 100),
             Param("delta", FloatVal(1), "float", 1000000000),
             Param("verbose", BoolVal(FALSE), "bool", 1)>>
      [] variant = "PATECTGAN" ->
           <<Param("preprocess_factor", FloatVal(5), "float", 100)>>
      [] variant = "PrivBayes" ->
           <<Param("privbayes_limit", IntVal(20), "int", 1),
             Param("privbayes_bins", IntVal(10), "int", 1),
             Param("temp_files_dir", StrVal("temp"), "str", 1),
             Param("seed", IntVal(0), "int", 1)>>
      [] variant = "AIM" ->
           <<Param("rounds_factor", FloatVal(1), "float", 10)>>
      [] variant = "GEM" ->
           <<Param("k", IntVal(3), "int", 1),
             Param("T", IntVal(100), "int", 1),
             Param("recycle", BoolVal(TRUE), "bool", 1),
             Param("verbose", BoolVal(FALSE), "bool", 1)>>
      [] OTHER -> <<>>

\* Synthesizer.__init__: allowed_params
allowed_params == {"epsilon", "slide_range", "thresh"}

\* the allowed_additional_params of each subclass
allowed_additional_params(variant) ==
    {ParamDefaults(variant)[i].name : i \in 1..Len(ParamDefaults(variant))}

\* the named parameters of a subclass constructor; every other keyword lands in
\* **synth_kwargs
NamedParams(variant) == allowed_params \cup allowed_additional_params(variant)

synth_kwargs(variant, kw) == DOMAIN kw \ NamedParams(variant)

\* locals().get(param): an option that was not supplied is None
Local(kw, name) == IF name \in DOMAIN kw THEN kw[name] ELSE NoneVal

\* the numeric coercion of the typing loop:
\*   if isinstance(param_value, int) and param_type is float: float(param_value)
Coerce(x, p) ==
    IF IsInstance(x, "int") /\ p.type = "float" THEN ToFloat(x, p.unit) ELSE x

\* setattr(self, param, value)
SetAttr(attrs, name, y) ==
    [n \in DOMAIN attrs \cup {name} |-> IF n = name THEN y ELSE attrs[n]]

TypeResult(raised, attrs) == [raised |-> raised, attrs |-> attrs]

\* the typing loop over param_defaults, in order: the attributes set so far, and
\* the TypeError of the first mismatch
RECURSIVE TypeParams(_, _, _, _)
TypeParam(defaults, kw, attrs, i, p, x) ==
    IF x.kind = "NoneType"
    THEN TypeParams(defaults, kw, SetAttr(attrs, p.name, p.default), i + 1)
    ELSE IF ~IsInstance(Coerce(x, p), p.type) THEN TypeResult("TypeError", attrs)
    ELSE TypeParams(defaults, kw, SetAttr(attrs, p.name, Coerce(x, p)), i + 1)

TypeParams(defaults, kw, attrs, i) ==
    IF i > Len(defaults) THEN TypeResult(None, attrs)
    ELSE TypeParam(defaults, kw, attrs, i, defaults[i], Local(kw, defaults[i].name))

\* ------------------------------------------------------------- construction

NoFrame == [cols |-> <<>>, n |-> 0 - 1, vals |-> <<>>]
NoTransform == [isNone |-> TRUE, map |-> <<>>]
SomeTransform(m) == [isNone |-> FALSE, map |-> m]

\* the variants whose constructor builds the wrapped mechanism (self.synthesizer)
\* from self.epsilon
BuildsSynthesizer(variant) == variant \in {"MST", "PATECTGAN", "PacSynth", "AIMT", "AIM"}

\* the variants that hand **synth_kwargs to Synthesizer.__init__
ForwardsKwargs(variant) == variant \in {"PacSynth", "AIMT"}

\* the keyword arguments, beside epsilon, the wrapped mechanism is constructed
\* with: **synth_kwargs, and for AIMSynthesizer rounds_factor=self.rounds_factor
MechKwargs(variant, kw, attrs) ==
    IF variant = "AIM" THEN [x \in {"rounds_factor"} |-> attrs[x]]
    ELSE Restrict(kw, synth_kwargs(variant, kw))

CtorFail(error) ==
    [raised |-> error, epsilon |-> 0, attrs |-> <<>>, built |-> FALSE]

\* the unknown-option check with the allow-list test dropped for one name
UnknownOptionLax(names, allowed) ==
    \E param \in names : param \notin allowed /\ param # "bogus"

\* for param in kwargs.keys(): if param not in allowed: raise ValueError
UnknownOption(names, allowed) == \E param \in names : param \notin allowed

\* float(epsilon_value)
EpsilonOf(eps) == IF IsInstance(eps, "int") THEN eps.v * EpsUnit ELSE eps.v

\* the subclass's typing loop and the wrapped mechanism
CtorOwn(variant, epsilon, own) ==
    IF own.raised # None THEN CtorFail(own.raised)
    ELSE [raised |-> None, epsilon |-> epsilon, attrs |-> own.attrs,
          built |-> BuildsSynthesizer(variant)]

\* after Synthesizer.__init__: the subclass's unknown-option check
CtorSub(variant, kw, epsilon, base) ==
    IF base.raised # None THEN CtorFail(base.raised)
    ELSE IF ~ForwardsKwargs(variant)
            /\ UnknownOption(synth_kwargs(variant, kw), allowed_additional_params(variant))
    THEN CtorFail("UnknownParam")
    ELSE CtorOwn(variant, epsilon, TypeParams(ParamDefaults(variant), kw, base.attrs, 1))

\* Synthesizer.__init__ after the epsilon checks: **kwargs against
\* allowed_params, then the typing loop
CtorBase(variant, kw, epsilon, kwargs) ==
    IF UnknownOption(kwargs, allowed_params) THEN CtorFail("UnknownParam")
    ELSE CtorSub(variant, kw, epsilon, TypeParams(BaseParamDefaults, kw, <<>>, 1))

\* Synthesizer.__init__: the epsilon checks
CtorEps(variant, kw, eps) ==
    IF eps.kind = "NoneType" THEN CtorFail("EpsilonRequired")
    ELSE IF ~(IsInstance(eps, "int") \/ IsInstance(eps, "float")) THEN CtorFail("TypeError")
    ELSE CtorBase(variant, kw, EpsilonOf(eps),
                  IF ForwardsKwargs(variant) THEN synth_kwargs(variant, kw) ELSE {})

\* The constructor of a variant called with the keyword arguments kw (a function
\* from option names to values): Synthesizer.__init__, then the subclass's own
\* checks, then the wrapped mechanism.  raised is None or the error raised.
Ctor(variant, kw) == CtorEps(variant, kw, Local(kw, "epsilon"))

\* The adapter object after a successful constructor.
\*   epsilon          self.epsilon
\*   declared         the epsilon given to the constructor (never changed)
\*   attrs            the option attributes set by the typing loops
\*   range_transform  self.range_transform
\*   synthEps         the wrapped mechanism's own epsilon (self.synthesizer's),
\*                    in the unit of the spent amounts
\*   fitted           the wrapped mechanism (or describer, or GEM) has been trained
\*   train            the frame of its last training
\*   hasG             self.G has been assigned (GEM)
\*   orig_cols        self.original_column_names (GEM)
\*   fits             the number of fit calls made on the object
NewAdapter(variant, c) ==
    [variant |-> variant, epsilon |-> c.epsilon, declared |-> c.epsilon,
     attrs |-> c.attrs, range_transform |-> NoTransform,
     synthEps |-> IF c.built THEN c.epsilon * 100 ELSE 0,
     fitted |-> FALSE, train |-> NoFrame, hasG |-> FALSE, orig_cols |-> <<>>,
     fits |-> 0]

NoAdapter ==
    [variant |-> None, epsilon |-> 0, declared |-> 0, attrs |-> <<>>,
     range_transform |-> NoTransform, synthEps |-> 0, fitted |-> FALSE,
     train |-> NoFrame, hasG |-> FALSE, orig_cols |-> <<>>, fits |-> 0]

slide_range(self) == self.attrs["slide_range"].v = 1
thresh(self) == self.attrs["thresh"].v

\* --------------------------------------------------------- column classifier

Distinct(df, c) == Cardinality(Range(df.vals[c]))

\* the ratio test with <= in place of <
IsCategoricalLe(df, c, th) == Distinct(df, c) * 100 <= df.n * th

\* float(df[col].nunique()) / df[col].count() < self.thresh, with thresh in
\* hundredths; on a column without values the ratio is NaN and the test is false
IsCategorical(df, c, th) == Distinct(df, c) * 100 < df.n * th

\* Synthesizer._categorical_continuous
categorical_continuous(df, th) ==
    [categorical |-> SelectSeq(df.cols, LAMBDA c : IsCategorical(df, c, th)),
     continuous |-> SelectSeq(df.cols, LAMBDA c : ~IsCategorical(df, c, th))]

\* the categorical check satisfied by one categorical column
categorical_check_any(df, th) ==
    Len(categorical_continuous(df, th).categorical) >= 1 \/ Len(df.cols) = 0

\* categorical_check of MST, AIMT, AIM, GEM and PrivBayes fit
categorical_check(df, th) ==
    Len(categorical_continuous(df, th).categorical) = Len(df.cols)

\* ------------------------------------------------------ quantile binning

\* the values of a column in increasing order (with repetitions)
RECURSIVE SortedVals(_)
DropAt(s, i) == [k \in 1..(Len(s) - 1) |-> IF k < i THEN s[k] ELSE s[k + 1]]
SortedVals(s) ==
    IF Len(s) = 0 THEN <<>>
    ELSE <<SetMin(Range(s))>>
         \o SortedVals(DropAt(s, CHOOSE j \in 1..Len(s) : s[j] = SetMin(Range(s))))

\* int(x) of the rational a / b (b > 0): truncation toward zero
TruncDiv(a, b) == IF a >= 0 THEN a \div b ELSE 0 - ((0 - a) \div b)

\* q times the j-th of the q-quantiles of the sorted values S (linear
\* interpolation between the neighbouring order statistics)
EdgeAt(S, q, lo, r) ==
    IF r = 0 THEN q * S[lo + 1]
    ELSE q * S[lo + 1] + r * (S[lo + 2] - S[lo + 1])
QuantileEdge(S, q, j) == EdgeAt(S, q, (j * (Len(S) - 1)) \div q, (j * (Len(S) - 1)) % q)

\* the quantile edges (times q) of the sorted values S
QuantileEdges(S, q) == {QuantileEdge(S, q, j) : j \in 0..q}

SetMax(S) == CHOOSE x \in S : \A y \in S : y <= x

\* the interval (left, right] of the edges that holds y; the lowest edge belongs
\* to the first interval
LeftEdge(edges, y) ==
    IF y = SetMin(edges) THEN y ELSE SetMax({e \in edges : e < y})
RightEdge(edges, y) ==
    IF y = SetMin(edges) THEN SetMin({e \in edges : e > y})
    ELSE SetMin({e \in edges : e >= y})

\* int(interval.mid), m being left + right (times q); the first interval's left
\* edge is lowered by 0.001, which lowers an integral positive midpoint by one
MidOf(m, first, q) ==
    IF first /\ m > 0 /\ m % (2 * q) = 0 THEN (m \div (2 * q)) - 1
    ELSE TruncDiv(m, 2 * q)

BinOf(edges, y, q) ==
    MidOf(LeftEdge(edges, y) + RightEdge(edges, y), LeftEdge(edges, y) = SetMin(edges), q)

BinAll(vals, q, edges) == [k \in 1..Len(vals) |-> BinOf(edges, q * vals[k], q)]

\* pd.qcut(col, q, duplicates="drop").apply(lambda row: row.mid).astype(int) on
\* a column with at least two distinct values: each value is replaced by the
\* truncated midpoint of its quantile interval (left, right]
QCutMid(vals, q) == BinAll(vals, q, QuantileEdges(SortedVals(vals), q))

\* a binning loop that ignores privbayes_limit: every column that is not
\* constant is binned
BinColumnsAll(df, limit, bins) ==
    [df EXCEPT !.vals = [c \in Range(df.cols) |->
        IF Distinct(df, c) > 1 THEN QCutMid(df.vals[c], bins) ELSE df.vals[c]]]

\* the binning loop of PrivBayes.fit: every column with more than
\* privbayes_limit distinct values is replaced, in place, by its binned values
BinColumns(df, limit, bins) ==
    [df EXCEPT !.vals = [c \in Range(df.cols) |->
        IF Distinct(df, c) > limit THEN QCutMid(df.vals[c], bins) ELSE df.vals[c]]]

\* ------------------------------------------------------------------- files

Dirs == {"temp", "scratch"}

\* a scratch directory: temp.csv and privbayes_description.csv (the frame the
\* description was computed from and the adapter whose fit wrote it)
NoDescription == [frame |-> NoFrame, owner |-> 0]

\* a directory also holds the pickle files written by save, by file name
EmptyDir == [temp |-> NoFrame, desc |-> NoDescription, pickles |-> <<>>]

\* type(self).__name__ + str(self.epsilon) + ".pickle": the class, the value of
\* the epsilon attribute at the time of the call, and the extension
FileName(self) == [cls |-> self.variant, eps |-> self.epsilon, ext |-> ".pickle"]

\* os.path.join(base_dir, name)
PathJoin(base_dir, name) == [dir |-> base_dir, name |-> name]

\* the position of column c in the column sequence
ColIndex(cols, c) == CHOOSE i \in 1..Len(cols) : cols[i] = c

\* a serialization that lays the block out row after row
to_pickle_by_row(df) ==
    [columns |-> df.cols, nrows |-> df.n,
     block |-> [i \in 1..(Len(df.cols) * df.n) |->
                  df.vals[df.cols[((i - 1) % Len(df.cols)) + 1]][((i - 1) \div Len(df.cols)) + 1]]]

\* data.to_pickle: the column labels, the number of rows and the values as one
\* block, column after column
to_pickle(df) ==
    [columns |-> df.cols, nrows |-> df.n,
     block |-> [i \in 1..(Len(df.cols) * df.n) |->
                  df.vals[df.cols[((i - 1) \div df.n) + 1]][((i - 1) % df.n) + 1]]]

\* pd.read_pickle: the frame rebuilt from the labels and the block
read_pickle(bytes) ==
    [cols |-> bytes.columns, n |-> bytes.nrows,
     vals |-> [c \in Range(bytes.columns) |->
                 [k \in 1..bytes.nrows |->
                    bytes.block[(ColIndex(bytes.columns, c) - 1) * bytes.nrows + k]]]]

\* the file written into a directory under a name, replacing an older one
PutFile(files, name, bytes) ==
    [x \in DOMAIN files \cup {name} |-> IF x = name THEN bytes ELSE files[x]]

FileExists(fsys, path) ==
    path.dir \in DOMAIN fsys /\ path.name \in DOMAIN fsys[path.dir].pickles

\* ------------------------------------------------------------------- fit

Floor == 10

\* the outcome of a fit call
\*   raised    None or the error raised
\*   self      the adapter after the call
\*   df        the caller's frame object after the call
\*   fs        the scratch directories after the call
\*   invoked   the wrapped mechanism's training was called
\*   prepEps   the epsilon the preprocessing spent (eps_spent)
\*   trainEps  the epsilon the training ran with, if it ran
\*   trained   the training was started
FitOutcome(raised, self, df, fsys, invoked, prepEps, trainEps, trained) ==
    [raised |-> raised, self |-> self, df |-> df, fs |-> fsys, invoked |-> invoked,
     prepEps |-> prepEps, trainEps |-> trainEps, trained |-> trained]

\* What the table transformer (an external collaborator) turns out to be:
\*   absent         TableTransformer.create returned no object
\*   fit_complete   it needs no fitting
\*   needs_epsilon  it must infer bounds, and spends the epsilon it is given
\*   cards          "ok", "null" (a None cardinality) or "short" (fewer
\*                  cardinalities than output columns)
TransformerProfiles ==
    [absent : BOOLEAN, fit_complete : BOOLEAN, needs_epsilon : BOOLEAN,
     cards : {"ok", "null", "short"}]

\* eps_spent, _ = self._transformer.odometer.spent
Spent(profile, preprocessor_eps) ==
    IF profile.needs_epsilon THEN preprocessor_eps ELSE 0

SlideResult(raised, self, df) == [raised |-> raised, self |-> self, df |-> df]

\* df, self.range_transform = self.slide_range_forward(df)
SlideAssign(self, f) ==
    IF f.raised THEN SlideResult(TRUE, self, f.df)
    ELSE SlideResult(FALSE, [self EXCEPT !.range_transform = SomeTransform(f.transform)], f.df)

\* Synthesizer._slide_range: the range transform is recorded as soon as the
\* forward pass returns
SlideRange(self, df) ==
    IF slide_range(self) THEN SlideAssign(self, slide_range_forward(df))
    ELSE SlideResult(FALSE, self, df)

\* an epsilon in the unit of the spent amounts
Fine(eps) == eps * 100

\* a training whose failure discards what an earlier training learned
TrainForgets(self, df, fsys, mechOk, prepEps, trainEps) ==
    IF mechOk /\ df.n >= 1
    THEN FitOutcome(None, [self EXCEPT !.fitted = TRUE, !.train = df],
                    df, fsys, TRUE, prepEps, trainEps, TRUE)
    ELSE FitOutcome("MechanismError", [self EXCEPT !.fitted = FALSE], df, fsys, TRUE,
                    prepEps, trainEps, TRUE)

\* The wrapped mechanism's training on df with trainEps: it fails (mechOk false,
\* or a frame without rows) or it learns df.
Train(self, df, fsys, mechOk, prepEps, trainEps) ==
    IF mechOk /\ df.n >= 1
    THEN FitOutcome(None, [self EXCEPT !.fitted = TRUE, !.train = df],
                    df, fsys, TRUE, prepEps, trainEps, TRUE)
    ELSE FitOutcome("MechanismError", self, df, fsys, TRUE, prepEps, trainEps, TRUE)

\* preprocessor_eps = self.preprocess_factor * self.epsilon
PreprocessorEps(self) ==
    IF self.variant \in {"MST", "PATECTGAN"}
    THEN self.attrs["preprocess_factor"].v * self.epsilon ELSE 0

\* The wrapped mechanism's fit(df, preprocessor_eps=prepEps): what its
\* transformer spends is taken from the mechanism's own epsilon, which must stay
\* at the floor or above (the accounting that _get_train_data states).
Preprocess(self, df, fsys, mechOk, eps_spent) ==
    IF eps_spent > 0
    THEN IF self.synthEps - eps_spent < Fine(Floor)
         THEN FitOutcome("EpsilonTooSmall", [self EXCEPT !.synthEps = @ - eps_spent],
                         df, fsys, TRUE, eps_spent, 0, FALSE)
         ELSE Train([self EXCEPT !.synthEps = @ - eps_spent], df, fsys, mechOk,
                    eps_spent, self.synthEps - eps_spent)
    ELSE Train(self, df, fsys, mechOk, 0, self.synthEps)

\* self.synthesizer.fit(df, ...) on the frame _slide_range returned
FitSlid(s, fsys, profile, mechOk) ==
    IF s.raised THEN FitOutcome("EmptyMin", s.self, s.df, fsys, FALSE, 0, 0, FALSE)
    ELSE Preprocess(s.self, s.df, fsys, mechOk, Spent(profile, PreprocessorEps(s.self)))

\* MSTSynthesizer.fit, AIMTSynthesizer.fit, AIMSynthesizer.fit: the categorical
\* check on the input, the range transform, the wrapped training
FitChecked(self, df, fsys, profile, mechOk) ==
    IF ~categorical_check(df, thresh(self))
    THEN FitOutcome("NotCategorical", self, df, fsys, FALSE, 0, 0, FALSE)
    ELSE FitSlid(SlideRange(self, df), fsys, profile, mechOk)

\* PATECTGAN.fit, PacSynth.fit: the range transform, then the wrapped training
FitUnchecked(self, df, fsys, profile, mechOk) ==
    FitSlid(SlideRange(self, df), fsys, profile, mechOk)

\* every object using the default directory, whatever it was given
temp_files_dir_shared(self) == "temp"

temp_files_dir(self) == self.attrs["temp_files_dir"].s

\* df.to_csv(temp.csv)
WriteCsv(fsys, dir, df) == [fsys EXCEPT ![dir].temp = df]

\* describer.save_dataset_description_to_file(privbayes_description.csv)
WriteDescription(fsys, dir, df, id) ==
    [fsys EXCEPT ![dir].desc = [frame |-> df, owner |-> id]]

\* PrivBayes.fit from the categorical check on: the check on the binned frame,
\* temp.csv, the describer, the description file
DescribeBinned(id, self, binned, fsys, dir, mechOk) ==
    IF ~categorical_check(binned, thresh(self))
    THEN FitOutcome("NotCategorical", self, binned, fsys, FALSE, 0, 0, FALSE)
    ELSE IF mechOk /\ binned.n >= 1
    THEN FitOutcome(None, [self EXCEPT !.fitted = TRUE, !.train = binned], binned,
                    WriteDescription(WriteCsv(fsys, dir, binned), dir, binned, id),
                    TRUE, 0, Fine(self.epsilon), TRUE)
    ELSE FitOutcome("MechanismError", self, binned, WriteCsv(fsys, dir, binned),
                    TRUE, 0, Fine(self.epsilon), TRUE)

FitPrivBayesSlid(id, s, fsys, mechOk) ==
    IF s.raised THEN FitOutcome("EmptyMin", s.self, s.df, fsys, FALSE, 0, 0, FALSE)
    ELSE DescribeBinned(id, s.self,
                        BinColumns(s.df, s.self.attrs["privbayes_limit"].v,
                                   s.self.attrs["privbayes_bins"].v),
                        fsys, temp_files_dir(s.self), mechOk)

\* PrivBayes.fit of adapter id: the range transform, the binning, the
\* categorical check on the binned frame, temp.csv, the describer, the
\* description file
FitPrivBayes(id, self, df, fsys, mechOk) ==
    FitPrivBayesSlid(id, SlideRange(self, df), fsys, mechOk)

\* "col" + str(i) for i in range(output_width)
ColName(i) == <<"col0", "col1", "col2", "col3">>[i + 1]
colnames(width) == [i \in 1..width |-> ColName(i - 1)]

\* the generator assigned before the cardinalities are looked at
GemBuildFirst(self, df, fsys, eps_spent, profile, mechOk) ==
    IF profile.absent
    THEN FitOutcome("NoTransformer", self, df, fsys, FALSE, eps_spent, 0, FALSE)
    ELSE IF profile.cards = "null"
    THEN FitOutcome("ContinuousCards", [self EXCEPT !.hasG = TRUE], df, fsys, FALSE,
                    eps_spent, 0, FALSE)
    ELSE IF profile.cards = "short"
    THEN FitOutcome("CardMismatch", [self EXCEPT !.hasG = TRUE], df, fsys, FALSE,
                    eps_spent, 0, FALSE)
    ELSE IF mechOk /\ df.n >= 1
    THEN FitOutcome(None, [self EXCEPT !.hasG = TRUE, !.train = df, !.fitted = TRUE],
                    df, fsys, TRUE, eps_spent, Fine(self.epsilon), TRUE)
    ELSE FitOutcome("MechanismError", [self EXCEPT !.hasG = TRUE, !.train = df],
                    df, fsys, TRUE, eps_spent, Fine(self.epsilon), TRUE)

\* GEMSynthesizer.fit after _get_train_data: the test for a missing
\* transformer, the cardinality checks, the generator self.G, the optimization
\* constructed with self.epsilon, its run
GemBuild(self, df, fsys, eps_spent, profile, mechOk) ==
    IF profile.absent
    THEN FitOutcome("NoTransformer", self, df, fsys, FALSE, eps_spent, 0, FALSE)
    ELSE IF profile.cards = "null"
    THEN FitOutcome("ContinuousCards", self, df, fsys, FALSE, eps_spent, 0, FALSE)
    ELSE IF profile.cards = "short"
    THEN FitOutcome("CardMismatch", self, df, fsys, FALSE, eps_spent, 0, FALSE)
    ELSE IF mechOk /\ df.n >= 1
    THEN FitOutcome(None, [self EXCEPT !.hasG = TRUE, !.train = df, !.fitted = TRUE],
                    df, fsys, TRUE, eps_spent, Fine(self.epsilon), TRUE)
    ELSE FitOutcome("MechanismError", [self EXCEPT !.hasG = TRUE, !.train = df],
                    df, fsys, TRUE, eps_spent, Fine(self.epsilon), TRUE)

\* a deduction made with the wrong sign
GemSpendAdds(self, df, fsys, eps_spent, profile, mechOk) ==
    IF eps_spent > 0
    THEN IF self.epsilon - eps_spent < Floor
         THEN FitOutcome("EpsilonTooSmall", [self EXCEPT !.epsilon = @ + eps_spent],
                         df, fsys, FALSE, Fine(eps_spent), 0, FALSE)
         ELSE GemBuild([self EXCEPT !.epsilon = @ + eps_spent], df, fsys,
                       Fine(eps_spent), profile, mechOk)
    ELSE GemBuild(self, df, fsys, 0, profile, mechOk)

\* _get_train_data from the odometer on:
\*   if eps_spent > 0.0: self.epsilon -= eps_spent; if self.epsilon < 10E-3: raise
GemSpend(self, df, fsys, eps_spent, profile, mechOk) ==
    IF eps_spent > 0
    THEN IF self.epsilon - eps_spent < Floor
         THEN FitOutcome("EpsilonTooSmall", [self EXCEPT !.epsilon = @ - eps_spent],
                         df, fsys, FALSE, Fine(eps_spent), 0, FALSE)
         ELSE GemBuild([self EXCEPT !.epsilon = @ - eps_spent], df, fsys,
                       Fine(eps_spent), profile, mechOk)
    ELSE GemBuild(self, df, fsys, 0, profile, mechOk)

\* GEMSynthesizer._get_train_data on the frame _slide_range returned
GemTrainData(s, fsys, transformer, preprocessor_eps, profile, mechOk) ==
    IF s.raised THEN FitOutcome("EmptyMin", s.self, s.df, fsys, FALSE, 0, 0, FALSE)
    ELSE IF transformer \notin {"None", "dict", "TableTransformer"}
    THEN FitOutcome("BadTransformer", s.self, s.df, fsys, FALSE, 0, 0, FALSE)
    ELSE IF profile.absent
    THEN FitOutcome("AttributeError", s.self, s.df, fsys, FALSE, 0, 0, FALSE)
    ELSE IF profile.fit_complete
    THEN GemBuild(s.self, s.df, fsys, 0, profile, mechOk)
    ELSE IF profile.needs_epsilon /\ preprocessor_eps = 0
    THEN FitOutcome("NeedsEpsilon", s.self, s.df, fsys, FALSE, 0, 0, FALSE)
    ELSE GemSpend(s.self, s.df, fsys, Spent(profile, preprocessor_eps), profile, mechOk)

\* GEMSynthesizer.fit.  transformer is the kind of the transformer argument,
\* preprocessor_eps the fit argument (epsilon's unit).
FitGEM(self, df, fsys, transformer, preprocessor_eps, profile, mechOk) ==
    IF ~categorical_check(df, thresh(self))
    THEN FitOutcome("NotCategorical", [self EXCEPT !.orig_cols = df.cols], df, fsys,
                    FALSE, 0, 0, FALSE)
    ELSE GemTrainData(SlideRange([self EXCEPT !.orig_cols = df.cols], df), fsys,
                      transformer, preprocessor_eps, profile, mechOk)

\* ------------------------------------------------------------------ sample

\* the frames of n rows a mechanism trained on frame t can generate: the schema
\* of t, each value one of the values of its column in t
Generated(t, n) ==
    {[cols |-> t.cols, n |-> n, vals |-> v] :
        v \in {f \in [Range(t.cols) ->
                        [1..n -> UNION {Range(t.vals[c]) : c \in Range(t.cols)}]] :
                  \A c \in Range(t.cols) : Range(f[c]) \subseteq Range(t.vals[c])}}

\* the frames of n rows the GEM generator built over frame t can produce (the
\* df of G.get_syndata): columns col0.. of the transformed domain, each value a
\* code below the cardinality of its column
GeneratedGEM(t, n) ==
    LET names == colnames(Len(t.cols)) IN
    {[cols |-> names, n |-> n, vals |-> v] :
        v \in {f \in [Range(names) -> [1..n -> 0..t.n]] :
                  \A i \in 1..Len(names) :
                      \A k \in 1..n : f[names[i]][k] < Distinct(t, t.cols[i])}}

\* the outcome of a sample call: the error raised or the frame returned, and the
\* frame the mechanism generated
SampleOutcome(raised, ret, gen) == [raised |-> raised, ret |-> ret, gen |-> gen]

\* Synthesizer._unslide_range without the test for a missing mapping
UnslideRangeNoGuard(self, gen) ==
    IF slide_range(self) /\ ~self.range_transform.isNone
    THEN SampleOutcome(None, slide_range_backward(gen, self.range_transform.map), gen)
    ELSE SampleOutcome(None, gen, gen)

\* Synthesizer._unslide_range on the generated frame
UnslideRange(self, gen) ==
    IF slide_range(self) /\ self.range_transform.isNone
    THEN SampleOutcome("MustFit", NoFrame, gen)
    ELSE IF slide_range(self)
    THEN SampleOutcome(None, slide_range_backward(gen, self.range_transform.map), gen)
    ELSE SampleOutcome(None, gen, gen)

\* the frames the call self.sample(n) can draw before _unslide_range, or the
\* error of the step that draws them
\*   MST, PATECTGAN, PacSynth, AIMT, AIM: self.synthesizer.sample(n)
\*   PrivBayes: the generator reads privbayes_description.csv of its directory
\*   GEM: self.G.get_syndata(n), self.G being unset before the first fit
DrawError(self, fsys) ==
    CASE self.variant = "PrivBayes" ->
           IF fsys[temp_files_dir(self)].desc = NoDescription THEN "FileNotFound" ELSE None
      [] self.variant = "GEM" -> IF self.hasG THEN None ELSE "AttributeError"
      [] OTHER -> IF self.fitted THEN None ELSE "MechanismError"

Draws(self, fsys, n) ==
    CASE self.variant = "PrivBayes" -> Generated(fsys[temp_files_dir(self)].desc.frame, n)
      [] self.variant = "GEM" -> GeneratedGEM(self.train, n)
      [] OTHER -> Generated(self.train, n)

\* ------------------------------------------------------------------- state

VARIABLES
    adapter,   \* the adapter objects, by identity
    data,      \* the caller's frame object of the last fit call
    fs,        \* the scratch directories
    last,      \* the last call and its outcome
    rt         \* an operation run on its own: the range transform, the column
               \* classifier, Publication.run_all_findings

vars == <<adapter, data, fs, last, rt>>

\* a call and its outcome
\*   op, id     "construct", "fit", "sample", "save" or "load", and the adapter
\*              it was made on
\*   path       the file path save wrote to, or load was given
\*   variant, kw  the class and keyword arguments of a constructor call
\*   arg        the frame given to fit, as it was before the call
\*   raised     None or the error raised
\*   ret, gen   the frame sample returned, and the frame the mechanism generated
\*   invoked    the wrapped mechanism was constructed (construct) or its
\*              training called (fit)
\*   prepEps, trainEps, trained  as in the outcome of fit
Call(op, id, raised, ret, gen, arg, invoked, prepEps, trainEps, trained) ==
    [op |-> op, id |-> id, raised |-> raised, ret |-> ret, gen |-> gen, arg |-> arg,
     invoked |-> invoked, prepEps |-> prepEps, trainEps |-> trainEps, trained |-> trained,
     variant |-> None, kw |-> <<>>, path |-> <<>>]

NoCall == Call("none", 0, None, NoFrame, NoFrame, NoFrame, FALSE, 0, 0, FALSE)

RtIdle == [pc |-> "idle", orig |-> NoFrame, df |-> NoFrame, map |-> <<>>]

ConstructDone(id, variant, kw, c) ==
    /\ adapter' = [adapter EXCEPT ![id] =
                     IF c.raised = None THEN NewAdapter(variant, c) ELSE NoAdapter]
    /\ last' = [Call("construct", id, c.raised, NoFrame, NoFrame, NoFrame,
                     c.built, 0, 0, FALSE) EXCEPT !.variant = variant, !.kw = kw]

\* Variant(**kw): a failed constructor leaves no object
Construct(id, variant, kw) ==
    /\ adapter[id] = NoAdapter
    /\ ConstructDone(id, variant, kw, Ctor(variant, kw))
    /\ UNCHANGED <<data, fs, rt>>

\* adapter.fit(df, ...) by variant
FitOf(id, self, df, transformer, preprocessor_eps, profile, mechOk) ==
    CASE self.variant \in {"MST", "AIMT", "AIM"} ->
             FitChecked(self, df, fs, profile, mechOk)
      [] self.variant \in {"PATECTGAN", "PacSynth"} ->
             FitUnchecked(self, df, fs, profile, mechOk)
      [] self.variant = "PrivBayes" -> FitPrivBayes(id, self, df, fs, mechOk)
      [] self.variant = "GEM" ->
             FitGEM(self, df, fs, transformer, preprocessor_eps, profile, mechOk)

FitDone(id, df, o) ==
    /\ adapter' = [adapter EXCEPT ![id] = [o.self EXCEPT !.fits = @ + 1]]
    /\ data' = o.df
    /\ fs' = o.fs
    /\ last' = Call("fit", id, o.raised, NoFrame, NoFrame, df,
                    o.invoked, o.prepEps, o.trainEps, o.trained)

\* a fit call on a constructed adapter; df is the caller's frame object
Fit(id, df, transformer, preprocessor_eps, profile, mechOk) ==
    /\ adapter[id] # NoAdapter
    /\ FitDone(id, df, FitOf(id, adapter[id], df, transformer, preprocessor_eps,
                             profile, mechOk))
    /\ UNCHANGED rt

\* a sample call that fails before a frame is drawn
SampleFails(id) ==
    /\ adapter[id] # NoAdapter
    /\ DrawError(adapter[id], fs) # None
    /\ last' = Call("sample", id, DrawError(adapter[id], fs), NoFrame, NoFrame, NoFrame,
                    FALSE, 0, 0, FALSE)
    /\ UNCHANGED <<adapter, data, fs, rt>>

SampleDone(id, o) ==
    last' = Call("sample", id, o.raised, o.ret, o.gen, NoFrame, FALSE, 0, 0, FALSE)

\* a sample call that draws a frame of n rows
Sample(id, n) ==
    /\ adapter[id] # NoAdapter
    /\ DrawError(adapter[id], fs) = None
    /\ \E gen \in Draws(adapter[id], fs, n) : SampleDone(id, UnslideRange(adapter[id], gen))
    /\ UNCHANGED <<adapter, data, fs, rt>>

\* adapter.save(df, base_dir): to_pickle opens the file for writing, which fails
\* when the directory does not exist
SaveTo(id, df, path) ==
    IF path.dir \in DOMAIN fs
    THEN /\ fs' = [fs EXCEPT ![path.dir].pickles = PutFile(@, path.name, to_pickle(df))]
         /\ last' = [Call("save", id, None, NoFrame, NoFrame, df, FALSE, 0, 0, FALSE)
                        EXCEPT !.path = path]
    ELSE /\ fs' = fs
         /\ last' = [Call("save", id, "FileNotFoundError", NoFrame, NoFrame, df,
                           FALSE, 0, 0, FALSE) EXCEPT !.path = path]

Save(id, df, base_dir) ==
    /\ adapter[id] # NoAdapter
    /\ SaveTo(id, df, PathJoin(base_dir, FileName(adapter[id])))
    /\ UNCHANGED <<adapter, data, rt>>

\* adapter.load(file_path)
Load(id, file_path) ==
    /\ adapter[id] # NoAdapter
    /\ last' = [IF FileExists(fs, file_path)
                THEN Call("load", id, None,
                          read_pickle(fs[file_path.dir].pickles[file_path.name]),
                          NoFrame, NoFrame, FALSE, 0, 0, FALSE)
                ELSE Call("load", id, "FileNotFoundError", NoFrame, NoFrame, NoFrame,
                          FALSE, 0, 0, FALSE)
                EXCEPT !.path = file_path]
    /\ UNCHANGED <<adapter, data, fs, rt>>

\* ------------------------------------------------ the range transform alone

RtInit ==
    /\ rt \in {[pc |-> "start", orig |-> d, df |-> d, map |-> <<>>] :
                 d \in Datasets(ColSeqs, MaxRows)}
    /\ adapter = [id \in {1} |-> NoAdapter]
    /\ data = NoFrame
    /\ fs = [d \in Dirs |-> EmptyDir]
    /\ last = NoCall

RtAfter(r, f) ==
    [r EXCEPT !.pc = IF f.raised THEN "raised" ELSE "forward",
              !.df = f.df, !.map = f.transform]

\* df, transform = slide_range_forward(df)
RtForward ==
    /\ rt.pc = "start"
    /\ rt' = RtAfter(rt, slide_range_forward(rt.df))
    /\ UNCHANGED <<adapter, data, fs, last>>

\* df = slide_range_backward(df, transform)
RtBackward ==
    /\ rt.pc = "forward"
    /\ rt' = [rt EXCEPT !.pc = "backward", !.df = slide_range_backward(rt.df, rt.map)]
    /\ UNCHANGED <<adapter, data, fs, last>>

RtNext == RtForward \/ RtBackward

SpecRT == RtInit /\ [][RtNext]_vars

\* ------------------------------------------------------- adapter lifecycle

MaxSample == 1
MaxFits == 2

Merge(f, g) == [x \in DOMAIN f \cup DOMAIN g |-> IF x \in DOMAIN g THEN g[x] ELSE f[x]]
Single(name, val) == [x \in {name} |-> val]
Options(name, vals) == {<<>>} \cup {Single(name, v) : v \in vals}

\* the keyword arguments the lifecycle constructs adapters with
LifeKwargs(variant) ==
    {Merge(Merge(Merge(Single("epsilon", FloatVal(EpsUnit)), s), t), l) :
        s \in Options("slide_range", {BoolVal(TRUE)}),
        t \in {Single("thresh", FloatVal(75)), Single("thresh", FloatVal(150))},
        l \in IF variant = "PrivBayes" THEN Options("privbayes_limit", {IntVal(1)})
              ELSE {<<>>}}

LifeProfiles ==
    {p \in TransformerProfiles : ~p.fit_complete /\ ~p.needs_epsilon}

\* the frames of the lifecycle: two-row columns that are constant or not, with a
\* positive minimum or not, in one or two columns; a frame without rows and a
\* frame without columns
LifeColumns == {<<1, 1>>, <<1, 2>>, <<0 - 1, 2>>}
LifeFrames ==
    {d \in Datasets({<<>>, <<"a">>, <<"col0", "a">>}, 2) :
        \/ d.n = 0 /\ d.cols \in {<<>>, <<"a">>}
        \/ d.n = 2 /\ \A c \in Range(d.cols) : d.vals[c] \in LifeColumns}

Init ==
    /\ adapter = [id \in {1} |-> NoAdapter]
    /\ data = NoFrame
    /\ fs = [d \in Dirs |-> EmptyDir]
    /\ last = NoCall
    /\ rt = RtIdle

NoProfile ==
    [absent |-> FALSE, fit_complete |-> FALSE, needs_epsilon |-> FALSE, cards |-> "ok"]

\* fit on a fresh frame or on the frame object of the previous fit call
FitFrames(frames) == frames \cup (IF data = NoFrame THEN {} ELSE {data})

DoConstruct == \E v \in Variants : \E kw \in LifeKwargs(v) : Construct(1, v, kw)

DoFit ==
    /\ adapter[1].variant # "GEM"
    /\ adapter[1].fits < MaxFits
    /\ \E df \in FitFrames(LifeFrames) : \E ok \in BOOLEAN :
          Fit(1, df, "None", 0, NoProfile, ok)

DoFitGEM ==
    /\ adapter[1].variant = "GEM"
    /\ adapter[1].fits < MaxFits
    /\ \E df \in FitFrames(LifeFrames) : \E t \in {"None", "other"} :
          \E p \in LifeProfiles : \E ok \in BOOLEAN : Fit(1, df, t, 0, p, ok)

DoSampleFails == SampleFails(1)

DoSample == \E n \in 1..MaxSample : Sample(1, n)

Next == DoConstruct \/ DoFit \/ DoFitGEM \/ DoSampleFails \/ DoSample

Spec == Init /\ [][Next]_vars

\* ------------------------------------------ one fit call on any bounded frame

\* every bounded frame of one column (or none), and the two-row frames of two
\* columns whose column "a" is one of the lifecycle's
OnceFrames ==
    Datasets({cs \in ColSeqs : Len(cs) <= 1}, MaxRows)
       \cup {d \in Datasets({cs \in ColSeqs : Len(cs) = 2}, 2) :
                 d.n = 2 /\ d.vals["a"] \in LifeColumns}

OnceFit ==
    /\ adapter[1].variant # "GEM"
    /\ adapter[1].fits < 1
    /\ \E df \in OnceFrames : \E ok \in BOOLEAN : Fit(1, df, "None", 0, NoProfile, ok)

OnceFitGEM ==
    /\ adapter[1].variant = "GEM"
    /\ adapter[1].fits < 1
    /\ \E df \in OnceFrames : \E t \in {"None", "other"} :
          \E p \in LifeProfiles : \E ok \in BOOLEAN : Fit(1, df, t, 0, p, ok)

OnceNext == DoConstruct \/ OnceFit \/ OnceFitGEM \/ DoSampleFails \/ DoSample

SpecOnce == Init /\ [][OnceNext]_vars

\* ---------------------------------------------------- constructor arguments

\* every option name some variant declares, and one that none declares
OptionNames ==
    allowed_params \cup UNION {allowed_additional_params(v) : v \in Variants} \cup {"bogus"}

\* one value of each kind (a float is counted in the unit of its option)
OptionValues ==
    {NoneVal, BoolVal(TRUE), BoolVal(FALSE), IntVal(1), IntVal(2), FloatVal(50),
     StrVal("scratch")}

\* epsilon left out, given as None, or given as a value of each kind and sign
EpsilonArgs ==
    Options("epsilon", {NoneVal, IntVal(1), IntVal(0), IntVal(0 - 1), FloatVal(500),
                        FloatVal(0 - 500), BoolVal(TRUE), StrVal("1.0")})

\* epsilon and at most one other option
CtorKwargs ==
    {Merge(e, o) : e \in EpsilonArgs,
                   o \in UNION {Options(name, OptionValues) : name \in OptionNames \ {"epsilon"}}}

\* the first constructor call of a process
CtorConstruct ==
    /\ last = NoCall
    /\ \E v \in Variants : \E kw \in CtorKwargs : Construct(1, v, kw)

CtorNext == CtorConstruct

SpecCtor == Init /\ [][CtorNext]_vars

\* ------------------------------------------------------- the privacy budget

\* epsilon 0.001, 0.02 or 1.0, every column categorical, and for the variants
\* with a preprocess_factor the default 0.05 or 2.0
BudgetKwargs(variant) ==
    {Merge(Merge(Single("epsilon", e), Single("thresh", FloatVal(150))), f) :
        e \in {FloatVal(1), FloatVal(20), FloatVal(EpsUnit)},
        f \in IF variant \in {"MST", "PATECTGAN"}
              THEN Options("preprocess_factor", {FloatVal(200)}) ELSE {<<>>}}

\* the preprocessor_eps arguments of GEM's fit: 0, 0.005, 0.015 and 2.0
BudgetPreps == {0, 5, 15, 2 * EpsUnit}

\* transformers that are present and whose cardinalities fit
BudgetProfiles == {p \in TransformerProfiles : ~p.absent /\ p.cards = "ok"}

BudgetFrames ==
    {d \in FramesOf(<<"a">>, 2) : d.vals["a"] \in {<<1, 1>>, <<1, 2>>}}

BudgetConstruct == \E v \in Variants : \E kw \in BudgetKwargs(v) : Construct(1, v, kw)

BudgetFit ==
    /\ adapter[1].variant # "GEM"
    /\ adapter[1].fits < MaxFits
    /\ \E df \in BudgetFrames : \E p \in BudgetProfiles : \E ok \in BOOLEAN :
          Fit(1, df, "None", 0, p, ok)

BudgetFitGEM ==
    /\ adapter[1].variant = "GEM"
    /\ adapter[1].fits < MaxFits
    /\ \E df \in BudgetFrames : \E e \in BudgetPreps : \E p \in BudgetProfiles :
          \E ok \in BOOLEAN : Fit(1, df, "None", e, p, ok)

MaxSaves == 2

FileCount(fsys) == Cardinality({p \in Dirs \X UNION {DOMAIN fsys[d].pickles : d \in Dirs} :
                                  p[2] \in DOMAIN fsys[p[1]].pickles})

\* save of a frame into the default directory, and load of the adapter's file
BudgetSave ==
    /\ FileCount(fs) < MaxSaves
    /\ \E df \in BudgetFrames : Save(1, df, "temp")

BudgetLoad == Load(1, PathJoin("temp", FileName(adapter[1])))

BudgetNext ==
    \/ BudgetConstruct \/ BudgetFit \/ BudgetFitGEM \/ DoSampleFails \/ DoSample
    \/ BudgetSave \/ BudgetLoad

SpecBudget == Init /\ [][BudgetNext]_vars

\* ------------------------------------- two PrivBayes adapters in one process

PBIds == {1, 2}

\* the scratch directory is the default "temp" or "scratch"
PBKwargs ==
    {Merge(Merge(Merge(Single("epsilon", FloatVal(EpsUnit)),
                       Single("thresh", FloatVal(150))), s), t) :
        s \in Options("slide_range", {BoolVal(TRUE)}),
        t \in Options("temp_files_dir", {StrVal("scratch")})}

PBFrames ==
    {d \in FramesOf(<<"a">>, 2) : d.vals["a"] \in {<<1, 2>>, <<0 - 1, 2>>}}

PBInit ==
    /\ adapter = [id \in PBIds |-> NoAdapter]
    /\ data = NoFrame
    /\ fs = [d \in Dirs |-> EmptyDir]
    /\ last = NoCall
    /\ rt = RtIdle

PBConstruct == \E id \in PBIds : \E kw \in PBKwargs : Construct(id, "PrivBayes", kw)

PBFit ==
    \E id \in PBIds :
        /\ adapter[id].fits < MaxFits
        /\ \E df \in PBFrames : \E ok \in BOOLEAN : Fit(id, df, "None", 0, NoProfile, ok)

PBSampleFails == \E id \in PBIds : SampleFails(id)

PBSample == \E id \in PBIds : \E n \in 1..MaxSample : Sample(id, n)

PBNext == PBConstruct \/ PBFit \/ PBSampleFails \/ PBSample

SpecPB == PBInit /\ [][PBNext]_vars

\* ------------------------------------------------ the classifier on its own

\* thresh values in hundredths: the default 0.05, and values at and between the
\* ratios of the bounded frames
Thresholds == {5, 50, 75, 100, 150}

ClsInit ==
    /\ rt \in {[pc |-> "start", df |-> d, th |-> t, cat |-> <<>>, con |-> <<>>] :
                 d \in OnceFrames, t \in Thresholds}
    /\ adapter = [id \in {1} |-> NoAdapter]
    /\ data = NoFrame
    /\ fs = [d \in Dirs |-> EmptyDir]
    /\ last = NoCall

ClsAfter(r, lists) ==
    [r EXCEPT !.pc = "classified", !.cat = lists.categorical, !.con = lists.continuous]

\* self._categorical_continuous(df) with self.thresh = th
Classify ==
    /\ rt.pc = "start"
    /\ rt' = ClsAfter(rt, categorical_continuous(rt.df, rt.th))
    /\ UNCHANGED <<adapter, data, fs, last>>

ClsNext == Classify

SpecCls == ClsInit /\ [][ClsNext]_vars

\* ------------------------------------------------------ saving and loading

\* frames without rows, one-column frames and two-column frames
SaveFrames ==
    {d \in LifeFrames : d.cols = <<"col0", "a">> => d.vals["col0"] = <<1, 2>>}

\* the directories that exist, and one that does not
SaveDirs == Dirs \cup {"missing"}

SvConstruct ==
    \E v \in Variants : \E e \in {FloatVal(20), FloatVal(EpsUnit)} :
        Construct(1, v, Merge(Single("epsilon", e), Single("thresh", FloatVal(150))))

\* a GEM fit, whose transformer spends nothing or 0.005 of the epsilon
SvFitGEM ==
    /\ adapter[1].variant = "GEM"
    /\ adapter[1].fits < 1
    /\ \E df \in BudgetFrames : \E e \in {0, 5} : \E p \in BudgetProfiles :
          Fit(1, df, "None", e, p, TRUE)

SvSave ==
    /\ FileCount(fs) < MaxSaves
    /\ \E df \in SaveFrames : \E d \in SaveDirs : Save(1, df, d)

\* load of the path just written, or of the adapter's file in some directory
SvLoad ==
    \E p \in {PathJoin(d, FileName(adapter[1])) : d \in SaveDirs}
               \cup (IF last.op = "save" THEN {last.path} ELSE {}) :
        Load(1, p)

SvNext == SvConstruct \/ SvFitGEM \/ SvSave \/ SvLoad

SpecSave == Init /\ [][SvNext]_vars

\* ------------------------------------------------ the findings of a paper

MaxFindings == 2

\* Finding(finding_lambda, args, description): args is None or a mapping,
\* description None or a string, value what finding_lambda returns when called
Findings ==
    [args : {None, "kwargs"}, description : {None, "first", "second"}, value : {1, 2}]

\* Finding.run: self.finding_lambda(**self.args); ** of None is a TypeError
RunRaises(finding) == finding.args = None

\* Finding.__str__ returns self.description; str() of an object whose __str__
\* returns None is a TypeError
StrRaises(finding) == finding.description = None

\* a value stored in results: what a finding returned, or the results dict itself
Returned(v) == [kind |-> "result", v |-> v]
ResultsItself == [kind |-> "results", v |-> 0]

\* results[key] = val
SetItem(results, key, val) ==
    [k \in DOMAIN results \cup {key} |-> IF k = key THEN val ELSE results[k]]

PubOutcome(raised, results, ran) == [raised |-> raised, results |-> results, ran |-> ran]

\* the loop of run_all_findings from finding i on; ran lists the findings whose
\* run() was called
RECURSIVE FindingsLoop(_, _, _, _)
\* result = finding.run(); results[str(finding)] = results
LoopBody(FINDINGS, i, results, ran) ==
    IF RunRaises(FINDINGS[i]) \/ StrRaises(FINDINGS[i])
    THEN PubOutcome("TypeError", results, Append(ran, i))
    ELSE FindingsLoop(FINDINGS, i + 1,
                      SetItem(results, FINDINGS[i].description, ResultsItself),
                      Append(ran, i))

FindingsLoop(FINDINGS, i, results, ran) ==
    IF i > Len(FINDINGS) THEN PubOutcome(None, results, ran)
    ELSE LoopBody(FINDINGS, i, results, ran)

\* Publication.run_all_findings
run_all_findings(FINDINGS) == FindingsLoop(FINDINGS, 1, <<>>, <<>>)

PubInit ==
    /\ rt \in {[pc |-> "start", FINDINGS |-> F, raised |-> None, results |-> <<>>,
                 ran |-> <<>>] :
                   F \in UNION {SeqsOfLen(Findings, k) : k \in 0..MaxFindings}}
    /\ adapter = <<NoAdapter>>
    /\ data = NoFrame
    /\ fs = [d \in Dirs |-> EmptyDir]
    /\ last = NoCall

PubAfter(r, o) ==
    [r EXCEPT !.pc = "done", !.raised = o.raised, !.results = o.results, !.ran = o.ran]

RunAllFindings ==
    /\ rt.pc = "start"
    /\ rt' = PubAfter(rt, run_all_findings(rt.FINDINGS))
    /\ UNCHANGED <<adapter, data, fs, last>>

PubNext == RunAllFindings

SpecPub == PubInit /\ [][PubNext]_vars

\* ------------------------------------------------------------------ claims

\* C1, as stated: on every dataset the forward pass returns and the backward
\* pass on its result and mapping gives back the original frame, value for value.
RoundTripEveryDataset ==
    rt.pc \in {"raised", "backward"} => (rt.pc = "backward" /\ rt.df = rt.orig)

\* C1, amended: on every dataset whose columns hold at least one value the
\* forward pass returns, and whenever it returns the backward pass on its result
\* and mapping gives back the original frame, value for value.
RoundTripWithRows ==
    /\ rt.pc = "raised" => (rt.orig.n = 0 /\ rt.orig.cols # <<>>)
    /\ rt.pc = "backward" => rt.df = rt.orig

\* a two-column frame of which exactly one column was shifted, restored
RoundTripShifted ==
    /\ rt.pc = "backward"
    /\ Len(rt.orig.cols) = 2
    /\ Cardinality(DOMAIN rt.map) = 1
    /\ rt.df = rt.orig

\* C2: a sample call that returns on a fitted adapter returns a frame whose
\* column names, in order, are those of the frame the adapter was fitted on.
SchemaPreserved ==
    (last.op = "sample" /\ last.raised = None /\ adapter[1].fitted)
        => last.ret.cols = adapter[1].train.cols

\* C3: in one fit call the epsilon spent on preprocessing plus the epsilon the
\* training runs with never exceeds the epsilon declared at construction.
BudgetConserved ==
    last.op = "fit"
        => last.prepEps + (IF last.trained THEN last.trainEps ELSE 0)
              <= Fine(adapter[last.id].declared)

\* C4: in the variants that spend on preprocessing, training never starts with
\* an epsilon below the floor.
FloorRespected ==
    (last.op = "fit" /\ last.trained
        /\ adapter[last.id].variant \in {"MST", "PATECTGAN", "GEM"})
        => last.trainEps >= Fine(Floor)

\* C5: a sample call on an adapter on which no fit has completed raises the
\* must-fit error and returns no frame.
UnfitSampleGuard ==
    (last.op = "sample" /\ ~adapter[last.id].fitted)
        => (last.raised = "MustFit" /\ last.ret = NoFrame)

\* C6: after the first fit call on an adapter has raised, the adapter has no
\* range-transform mapping, the epsilon it was constructed with and no trained
\* mechanism, and a sample call that follows raises the must-fit error.
FailedFitLeavesUnfit ==
    /\ (last.op = "fit" /\ last.raised # None /\ adapter[1].fits = 1)
          => /\ adapter[1].range_transform = NoTransform
             /\ adapter[1].epsilon = adapter[1].declared
             /\ ~adapter[1].fitted
             /\ ~adapter[1].hasG
    /\ (last.op = "sample" /\ adapter[1].fits = 1 /\ ~adapter[1].fitted)
          => last.raised = "MustFit"

\* a frame with rows has a column whose distinct count / count is >= th
HasContinuous(df, th) ==
    df.n > 0 /\ \E c \in Range(df.cols) : Distinct(df, c) * 100 >= df.n * th

UnknownOptionRejected ==
    (last.op = "construct" /\ ~(DOMAIN last.kw \subseteq NamedParams(last.variant)))
        => /\ IF Local(last.kw, "epsilon").kind \in {"int", "float", "bool"}
              THEN last.raised = "UnknownParam"
              ELSE last.raised \in {"EpsilonRequired", "TypeError"}
           /\ ~last.invoked
           /\ adapter[1] = NoAdapter

\* a variant that forwards its extra keywords to the base constructor refuses
\* an option that only another variant declares
ForwardedOptionRefused ==
    /\ last.op = "construct"
    /\ last.variant = "PacSynth"
    /\ "preprocess_factor" \in DOMAIN last.kw
    /\ Local(last.kw, "epsilon") = IntVal(1)
    /\ last.raised = "UnknownParam"

\* C9: after a constructor call every declared option that was not supplied
\* has its default, every supplied value of the declared type is stored, an int
\* given for a float option is stored as that float, and a value of any other
\* kind (a bool for a float or int option, a float for an int option) makes the
\* constructor raise.
OptionTyping ==
    last.op = "construct" =>
        \A p \in Range(BaseParamDefaults \o ParamDefaults(last.variant)) :
              CASE Local(last.kw, p.name).kind = "NoneType" ->
                     last.raised = None => adapter[1].attrs[p.name] = p.default
                [] Local(last.kw, p.name).kind = p.type ->
                     last.raised = None => adapter[1].attrs[p.name] = Local(last.kw, p.name)
                [] Local(last.kw, p.name).kind = "int" /\ p.type = "float" ->
                     last.raised = None =>
                        adapter[1].attrs[p.name] = FloatVal(Local(last.kw, p.name).v * p.unit)
                [] OTHER -> last.raised # None

\* C10: the epsilon of a constructed adapter is strictly positive.
PositiveEpsilon == adapter[1] # NoAdapter => adapter[1].epsilon > 0

\* C11: when slide_range_forward returns, every column whose values are all
\* strictly positive has had its minimum subtracted from every value and that
\* minimum recorded under its name; every other column is unchanged and has no
\* entry in the mapping; the columns and the row count are as given.
ForwardPassShifts ==
    rt.pc = "forward" =>
        /\ rt.df.cols = rt.orig.cols
        /\ rt.df.n = rt.orig.n
        /\ DOMAIN rt.map \subseteq Range(rt.orig.cols)
        /\ \A c \in Range(rt.orig.cols) :
              IF \A k \in 1..rt.orig.n : rt.orig.vals[c][k] > 0
              THEN /\ c \in DOMAIN rt.map
                   /\ \E k \in 1..rt.orig.n : rt.orig.vals[c][k] = rt.map[c]
                   /\ \A k \in 1..rt.orig.n :
                         /\ rt.map[c] <= rt.orig.vals[c][k]
                         /\ rt.df.vals[c][k] = rt.orig.vals[c][k] - rt.map[c]
              ELSE /\ c \notin DOMAIN rt.map
                   /\ rt.df.vals[c] = rt.orig.vals[c]

\* a frame of a shifted column and a column whose minimum is exactly 0
ForwardShiftedBesideZero ==
    /\ rt.pc = "forward"
    /\ Len(rt.orig.cols) = 2
    /\ Cardinality(DOMAIN rt.map) = 1
    /\ \E c \in Range(rt.orig.cols) \ DOMAIN rt.map :
          /\ 0 \in Range(rt.orig.vals[c])
          /\ \A k \in 1..rt.orig.n : rt.orig.vals[c][k] >= 0
    /\ rt.df # rt.orig

\* C12: with slide_range enabled, the frame a fit hands to the wrapped
\* mechanism (for every variant but GEM, whose mechanism is handed the
\* transformer's output) has no negative value and a minimum of 0 in every column.
SlidFrameStartsAtZero ==
    (last.op = "fit" /\ last.invoked /\ adapter[1].variant # "GEM"
        /\ slide_range(adapter[1]))
        => \A c \in Range(data.cols) :
              /\ \A k \in 1..data.n : data.vals[c][k] >= 0
              /\ \E k \in 1..data.n : data.vals[c][k] = 0

\* C13: with slide_range enabled, the frame a sample call returns is the
\* generated frame with, for every column of the fitted frame that has an entry
\* in the range-transform mapping, the recorded amount added to every value of
\* the generated column at that position.
SampleAddsBack ==
    (last.op = "sample" /\ last.raised = None /\ adapter[1].fitted
        /\ slide_range(adapter[1]))
        => /\ last.ret.n = last.gen.n
           /\ Len(last.ret.cols) = Len(adapter[1].train.cols)
           /\ \A i \in 1..Len(adapter[1].train.cols) : \A k \in 1..last.gen.n :
                 last.ret.vals[last.ret.cols[i]][k]
                    = last.gen.vals[last.gen.cols[i]][k]
                      + (IF adapter[1].train.cols[i] \in DOMAIN adapter[1].range_transform.map
                         THEN adapter[1].range_transform.map[adapter[1].train.cols[i]]
                         ELSE 0)

\* C14: _categorical_continuous lists a column as categorical exactly when its
\* distinct count divided by its count is strictly below thresh (never for a
\* column without values) and as continuous otherwise; the two lists share no
\* column, hold no column twice and together hold every column of the frame.
ClassifierPartitions ==
    rt.pc = "classified" =>
        /\ \A c \in Range(rt.df.cols) :
              c \in Range(rt.cat)
                 <=> (rt.df.n > 0
                        /\ Cardinality({rt.df.vals[c][k] : k \in 1..rt.df.n}) * 100
                              < rt.df.n * rt.th)
        /\ Range(rt.cat) \cap Range(rt.con) = {}
        /\ Range(rt.cat) \cup Range(rt.con) = Range(rt.df.cols)
        /\ Len(rt.cat) + Len(rt.con) = Len(rt.df.cols)

\* a frame with a column whose ratio equals thresh (continuous) beside a
\* column below it (categorical)
ClassifierAtThreshold ==
    /\ rt.pc = "classified"
    /\ Len(rt.cat) = 1
    /\ Len(rt.con) = 1
    /\ Cardinality(Range(rt.df.vals[rt.con[1]])) * 100 = rt.df.n * rt.th

GivenDir(id) == adapter[id].attrs["temp_files_dir"].s

\* the PrivBayes objects that exist were given pairwise different directories
DistinctDirs(ad) ==
    \A i \in PBIds : \A j \in PBIds :
        i # j /\ ad[i] # NoAdapter /\ ad[j] # NoAdapter
            => ad[i].attrs["temp_files_dir"].s # ad[j].attrs["temp_files_dir"].s

\* C18: while the PrivBayes objects have different scratch directories, the
\* description file in an object's directory was written by that object's own
\* fit, a sample draws from the description of the frame the object was last
\* trained on, and a call on one object changes no file outside that object's
\* directory.
ScratchIsolation ==
    /\ [](DistinctDirs(adapter)
            => /\ \A id \in PBIds :
                     adapter[id] # NoAdapter
                        => /\ fs[GivenDir(id)].desc.owner \in {0, id}
                           /\ fs[GivenDir(id)].desc.owner = id
                                 => fs[GivenDir(id)].desc.frame = adapter[id].train
               /\ last.op = "sample" /\ last.gen # NoFrame
                     => /\ fs[GivenDir(last.id)].desc.owner = last.id
                        /\ last.gen \in Generated(adapter[last.id].train, last.gen.n))
    /\ [][DistinctDirs(adapter') /\ last'.op \in {"fit", "sample"}
            => \A d \in Dirs : fs'[d] # fs[d] => d = adapter'[last'.id].attrs["temp_files_dir"].s]_vars

\* both objects are trained, on different frames and in different directories,
\* the first one fitted twice, and the second one has just drawn a sample
TwoTrainedSideBySide ==
    /\ adapter[1] # NoAdapter /\ adapter[2] # NoAdapter
    /\ GivenDir(1) # GivenDir(2)
    /\ adapter[1].fitted /\ adapter[2].fitted
    /\ adapter[1].fits = 2
    /\ adapter[1].train # adapter[2].train
    /\ last.op = "sample" /\ last.id = 2 /\ last.raised = None

\* C19: in a fit of GEMSynthesizer the optimization runs with the epsilon
\* declared at construction less what the transformer spent in this fit, and
\* it does not run when that remainder is below the floor.
GemBudgetDeducted ==
    (last.op = "fit" /\ adapter[last.id].variant = "GEM" /\ last.trained)
        => /\ last.trainEps = Fine(adapter[last.id].declared) - last.prepEps
           /\ Fine(adapter[last.id].declared) - last.prepEps >= Fine(Floor)

\* C20: the range-transform mapping of an adapter is absent until a fit has
\* been called on it, and once it is present no later call changes it.
MappingWrittenOnce ==
    /\ [](adapter[1] # NoAdapter /\ adapter[1].fits = 0
            => adapter[1].range_transform.isNone)
    /\ [][adapter[1] # NoAdapter /\ ~adapter[1].range_transform.isNone
            => adapter'[1].range_transform = adapter[1].range_transform]_vars

\* C21: the epsilon of an adapter never increases; a sample, save or load call
\* leaves it as it was; and a call changes it only if it is a fit that spent a
\* positive amount on preprocessing, and then by exactly that amount.
EpsilonOnlySpent ==
    [][adapter[1] # NoAdapter
         => /\ adapter'[1].epsilon <= adapter[1].epsilon
            /\ last'.op \in {"sample", "save", "load"}
                  => adapter'[1].epsilon = adapter[1].epsilon
            /\ adapter'[1].epsilon # adapter[1].epsilon
                  => /\ last'.op = "fit"
                     /\ last'.prepEps > 0
                     /\ Fine(adapter[1].epsilon - adapter'[1].epsilon) = last'.prepEps]_vars

\* a GEM adapter whose epsilon two fits have reduced, after a sample and with a
\* saved file
EpsilonSpentTwice ==
    /\ adapter[1].variant = "GEM"
    /\ adapter[1].fits = 2
    /\ adapter[1].epsilon = adapter[1].declared - 10
    /\ last.op = "sample"
    /\ FileCount(fs) > 0

\* the frame PrivBayes.fit holds after _slide_range, before the binning loop
SlidArg == SlideRange(adapter[1], last.arg).df

\* column c of the frame left by the last fit is the quantile-binned column c of
\* the slid frame if that column has more than privbayes_limit distinct values,
\* and the column itself otherwise
BinnedAsLimitSays(c) ==
    IF Distinct(SlidArg, c) > adapter[1].attrs["privbayes_limit"].v
    THEN data.vals[c] = QCutMid(SlidArg.vals[c], adapter[1].attrs["privbayes_bins"].v)
    ELSE data.vals[c] = SlidArg.vals[c]

\* C22: PrivBayes.fit bins exactly the columns with more than privbayes_limit
\* distinct values and leaves the other columns as they are, and the describer,
\* when it is invoked, reads the frame so binned.
BinsAboveLimit ==
    (last.op = "fit" /\ adapter[1].variant = "PrivBayes" /\ last.raised # "EmptyMin")
        => /\ data.cols = last.arg.cols
           /\ \A c \in Range(data.cols) : BinnedAsLimitSays(c)
           /\ last.invoked => fs[temp_files_dir(adapter[1])].temp = data

\* a fit that binned one column, changing it, kept a column at the limit as it
\* was, and ran the describer
BinnedOneOfTwo ==
    /\ last.op = "fit" /\ adapter[1].variant = "PrivBayes"
    /\ last.raised = None /\ last.invoked
    /\ \E c \in Range(data.cols) : \E d \in Range(data.cols) :
          /\ Distinct(SlidArg, c) > adapter[1].attrs["privbayes_limit"].v
          /\ data.vals[c] # SlidArg.vals[c]
          /\ Distinct(SlidArg, d) = adapter[1].attrs["privbayes_limit"].v
          /\ data.vals[d] = SlidArg.vals[d]

\* the errors GEMSynthesizer.fit raises before it reads the cardinalities
BeforeCards ==
    {"NotCategorical", "EmptyMin", "BadTransformer", "AttributeError", "NeedsEpsilon",
     "EpsilonTooSmall"}

\* the error of the cardinality checks for a transformer profile
CardsError(p) == IF p.cards = "null" THEN "ContinuousCards" ELSE "CardMismatch"

\* a fit of the GEM adapter self with a transformer whose cardinalities are not
\* in order raises the matching error unless an earlier step has raised, and
\* builds nothing
NothingBuilt(self, p, o) ==
    /\ o.raised \in BeforeCards \cup {CardsError(p)}
    /\ ~o.invoked
    /\ o.self.hasG = self.hasG
    /\ o.self.train = self.train

CardsRefused(self, df, p) == NothingBuilt(self, p, FitGEM(self, df, fs, "None", 0, p, TRUE))

\* C23: a GEM fit whose transformer reports a null cardinality, or fewer
\* cardinalities than its output width, fails with the error of that check
\* (unless an earlier step failed) and neither assigns the generator nor starts
\* the optimization.
BadCardsBuildNothing ==
    /\ [](adapter[1].variant = "GEM"
            => \A df \in BudgetFrames : \A p \in {q \in LifeProfiles : q.cards # "ok"} :
                  CardsRefused(adapter[1], df, p))
    /\ [][last'.op = "fit" /\ last'.raised \in {"ContinuousCards", "CardMismatch"}
            => /\ ~last'.invoked /\ ~last'.trained
               /\ adapter'[1].hasG = adapter[1].hasG
               /\ adapter'[1].train = adapter[1].train
               /\ adapter'[1].fitted = adapter[1].fitted]_vars

\* a first fit refused by a cardinality check: no generator exists
RefusedOnCards ==
    /\ last.op = "fit" /\ adapter[1].variant = "GEM"
    /\ last.raised \in {"ContinuousCards", "CardMismatch"}
    /\ adapter[1].fits = 1
    /\ ~adapter[1].hasG

\* the outcome of a GEM fit is one of the errors raised before the transformer
\* is used, or the given error, and the mechanism was not called
FailsWith(o, error) ==
    /\ o.raised \in {"NotCategorical", "EmptyMin", error}
    /\ ~o.invoked /\ ~o.trained

\* C24: a GEM fit whose transformer could not be constructed fails with the
\* error the fit raises for a missing transformer, a fit given a transformer of
\* another kind fails with the error for a bad transformer, and neither trains.
NoTransformerReported ==
    adapter[1].variant = "GEM"
        => \A df \in BudgetFrames :
              /\ \A p \in {q \in LifeProfiles : q.absent} :
                    FailsWith(FitGEM(adapter[1], df, fs, "None", 0, p, TRUE), "NoTransformer")
              /\ \A p \in LifeProfiles :
                    FailsWith(FitGEM(adapter[1], df, fs, "other", 0, p, TRUE), "BadTransformer")

\* C25: the delta and verbose given to the constructor of MSTSynthesizer are
\* handed to the constructor of the wrapped MST mechanism.
MstOptionsReachMechanism ==
    (last.op = "construct" /\ last.variant = "MST" /\ last.raised = None)
        => \A name \in {"delta", "verbose"} \cap DOMAIN last.kw :
              last.kw[name] # NoneVal
                 => /\ name \in DOMAIN MechKwargs("MST", last.kw, adapter[1].attrs)
                    /\ MechKwargs("MST", last.kw, adapter[1].attrs)[name] = adapter[1].attrs[name]

\* the epsilon a fit call handed to preprocessing and to training
HandedBy(call) == call.prepEps + (IF call.trained THEN call.trainEps ELSE 0)

\* C26: the epsilon handed to preprocessing and training by the fit calls on
\* one adapter stays, summed over the calls, within the epsilon declared at
\* construction; stated for two fit calls made one after the other.
LifetimeBudget ==
    [][(last.op = "fit" /\ last'.op = "fit" /\ last'.id = last.id)
          => HandedBy(last) + HandedBy(last') <= Fine(adapter'[last'.id].declared)]_vars

\* C27: after a fit call, whether it returned or raised, the frame object the
\* caller passed holds the values it held before the call.
CallerFrameUntouched ==
    last.op = "fit" => data = last.arg

\* C28: a GEM fit that fails the floor test leaves the adapter's epsilon as it
\* was before the call.
ExhaustionKeepsEpsilon ==
    [][(last'.op = "fit" /\ last'.raised = "EpsilonTooSmall")
          => adapter'[last'.id].epsilon = adapter[last'.id].epsilon]_vars

\* C29: with both PrivBayes objects on the default scratch directory, a sample
\* that draws a frame draws it from the description written by the last
\* successful fit of the object sampled, and a sample on an object that was
\* never fitted draws nothing.
DefaultDirIsolation ==
    (/\ \A id \in PBIds : adapter[id] # NoAdapter /\ GivenDir(id) = "temp"
     /\ last.op = "sample" /\ last.gen # NoFrame)
        => /\ adapter[last.id].fitted
           /\ fs["temp"].desc.owner = last.id
           /\ fs["temp"].desc.frame = adapter[last.id].train

\* every finding of the list has arguments and a description, and no two
\* findings share a description
WellFormed(F) ==
    /\ \A i \in 1..Len(F) : ~RunRaises(F[i]) /\ ~StrRaises(F[i])
    /\ \A i \in 1..Len(F) : \A j \in 1..Len(F) :
          F[i].description = F[j].description => i = j

\* C30: run_all_findings on a list of findings that have arguments and
\* distinct descriptions returns, has run every finding once and in order, and
\* the mapping returned holds under each finding's description what that
\* finding's run() returned.
FindingsCollected ==
    (rt.pc = "done" /\ WellFormed(rt.FINDINGS))
        => /\ rt.raised = None
           /\ rt.ran = [i \in 1..Len(rt.FINDINGS) |-> i]
           /\ DOMAIN rt.results = {rt.FINDINGS[i].description : i \in 1..Len(rt.FINDINGS)}
           /\ \A i \in 1..Len(rt.FINDINGS) :
                 rt.results[rt.FINDINGS[i].description] = Returned(rt.FINDINGS[i].value)

====
